---- MODULE Spec2Model ----
(***************************************************************************)
(* Model of the Lark channel plugin's connection / client / runtime layer: *)
(*   extensions/lark/src/runtime.ts  - the plugin API singleton            *)
(*   extensions/lark/src/monitor.ts  - normalizer, routing, connections    *)
(*   extensions/lark/src/client.ts   - client factory and REST cache       *)
(* Strings are sequences of one-character strings, so that trimming and    *)
(* the ':'-joined cache key are computed, not assumed.                     *)
(***************************************************************************)
EXTENDS Integers, Sequences, FiniteSets, TLC

VARIABLES
    pluginApi,            \* runtime.ts: "null" or "api"
    activeWsClient,       \* monitor.ts: 0 (null) or the index of a WSClient
    activeWebhookServer,  \* monitor.ts: 0 (null) or the index of a webhook server
    clientCache,          \* client.ts: cache key -> REST client id
    clientsCreated,       \* number of `new Lark.Client` evaluated so far
    wsClients,            \* every WSClient constructed: [account, started]
    webhookServers,       \* every webhook server started: [account, port, signal, stopCalls]
    signals,              \* abort signals: [aborted, listeners]
    received,             \* events the vendor dispatcher handed to the handler, in arrival order
    inboundCalls,         \* api.inbound.handleMessage invocations, in call order
    errorsLogged,         \* api.logger.error calls of the socket event handler
    errorsPropagated,     \* rejections the event handler let through to the dispatcher
    issued,               \* (credentials, client) pairs createLarkClient returned,
                          \* before and since the latest clearClientCache
    last                  \* the most recent call: what it was and how it ended

vars == <<pluginApi, activeWsClient, activeWebhookServer, clientCache,
          clientsCreated, wsClients, webhookServers, signals,
          received, inboundCalls, errorsLogged, errorsPropagated, issued, last>>

connVars == <<activeWsClient, activeWebhookServer, wsClients, webhookServers, signals>>
cacheVars == <<clientCache, clientsCreated, issued>>
routeVars == <<received, inboundCalls, errorsLogged, errorsPropagated>>

(***************************************************************************)
(* Bounds of the model.                                                    *)
(***************************************************************************)
MaxConnections == 2 \* connections (WSClients and webhook servers) created in one run
MaxSignals == 2     \* distinct abort signals the host hands out
MaxClients == 3     \* REST clients constructed in one run
MaxInbound == 2     \* events one routing run receives
MaxNormalized == 1  \* events one normalizer run receives
MaxAuxConns == 1    \* connections of a run that is about routing or the client factory
MaxAuxClients == 2  \* REST clients constructed beside running connections

NULL == 0

(***************************************************************************)
(* Strings.                                                                *)
(***************************************************************************)
IsSpace(c) == c \in {" ", "\t"}

RECURSIVE TrimStart(_)
TrimStart(s) ==
    IF s = <<>> THEN <<>>
    ELSE IF IsSpace(Head(s)) THEN TrimStart(Tail(s)) ELSE s

RECURSIVE TrimEnd(_)
TrimEnd(s) ==
    IF s = <<>> THEN <<>>
    ELSE IF IsSpace(s[Len(s)]) THEN TrimEnd(SubSeq(s, 1, Len(s) - 1)) ELSE s

\* String.prototype.trim
Trim(s) == TrimEnd(TrimStart(s))

\* JavaScript truthiness of a string: only "" is falsy
Truthy(s) == s # <<>>

(***************************************************************************)
(* Accounts (ResolvedLarkAccount), the fields this layer reads.            *)
(***************************************************************************)
Account(id, appId, appSecret, domain, mode, port) ==
    [accountId |-> id, appId |-> appId, appSecret |-> appSecret,
     domain |-> domain, connectionMode |-> mode, webhookPort |-> port]

AcctSocket   == Account("default", <<"a">>, <<"s">>, "lark", "websocket", 3000)
AcctCallback == Account("hook", <<"a">>, <<"s">>, "lark", "webhook", 8080)
AcctOtherId  == Account("otherId", <<"b">>, <<"s">>, "lark", "websocket", 3000)
AcctOtherSec == Account("otherSecret", <<"a">>, <<"t">>, "lark", "webhook", 3001)
AcctFeishu   == Account("feishu", <<"a">>, <<"s">>, "feishu", "websocket", 3000)
AcctNoId     == Account("noId", <<>>, <<"s">>, "lark", "websocket", 3000)
AcctNoSecret == Account("noSecret", <<"a">>, <<>>, "lark", "webhook", 3000)
AcctBlankId  == Account("blankId", <<" ">>, <<"s">>, "lark", "websocket", 3000)
AcctBlankSec == Account("blankSecret", <<"a">>, <<" ", "\t">>, "lark", "websocket", 3000)
AcctColonId  == Account("colonId", <<"a", ":", "b">>, <<"c">>, "lark", "websocket", 3000)
AcctColonSec == Account("colonSecret", <<"a">>, <<"b", ":", "c">>, "lark", "websocket", 3000)

\* accounts the connection manager is started with
MonitorAccounts == {AcctSocket, AcctCallback, AcctOtherSec, AcctNoId}
\* accounts the client factory is called with
ClientAccounts == {AcctSocket, AcctCallback, AcctOtherId, AcctOtherSec, AcctFeishu,
                   AcctNoId, AcctNoSecret, AcctBlankId, AcctBlankSec,
                   AcctColonId, AcctColonSec}

\* accounts of the runs that call the factory beside running connections:
\* one with credentials, and every way of lacking them
FactoryAccounts == {AcctSocket, AcctNoId, AcctNoSecret, AcctBlankId, AcctBlankSec}

\* accounts, recipients, texts and thread ids of the outbound sends
SendAccounts == {AcctSocket, AcctNoId, AcctBlankId}
RecipientIds == {<<"o", "c", "_", "1">>, <<"o", "u", "_", "1">>}
SendTexts == {<<"h", "i">>, <<>>}

AllAccounts == MonitorAccounts \cup ClientAccounts

AccountById(id) == CHOOSE a \in AllAccounts : a.accountId = id

\* the credential identity of an account
Triple(account) == <<account.appId, account.appSecret, account.domain>>

SignalIds == 1 .. MaxSignals

(***************************************************************************)
(* runtime.ts                                                              *)
(***************************************************************************)
\* a getLarkRuntime that hands out the singleton unchecked
GetLarkRuntimeUnchecked(api) == FALSE

\* getLarkRuntime: throws when the singleton is unset
GetLarkRuntimeThrows(api) == api = "null"

(***************************************************************************)
(* client.ts                                                               *)
(***************************************************************************)
DomainStr(domain) ==
    IF domain = "feishu" THEN <<"f", "e", "i", "s", "h", "u">>
    ELSE <<"l", "a", "r", "k">>

\* a cache key without the domain
cacheKeyNoDomain(account) == account.appId \o <<":">> \o account.appSecret

\* `${account.appId}:${account.appSecret}:${account.domain}`
cacheKey(account) ==
    account.appId \o <<":">> \o account.appSecret \o <<":">> \o DomainStr(account.domain)

\* validateCredentials: TRUE when it throws
validateCredentials(account) ==
    ~Truthy(account.appId) \/ ~Truthy(account.appSecret)

MapSet(f, k, v) == [x \in DOMAIN f \cup {k} |-> IF x = k THEN v ELSE f[x]]

EmptyMap == [x \in {} |-> 0]

\* createLarkClient: the outcome, the client returned, the cache and the
\* number of clients constructed afterwards
createLarkClient(cache, created, account) ==
    IF validateCredentials(account)
    THEN [err |-> "missingCredentials", ret |-> NULL, cache |-> cache, created |-> created]
    ELSE IF cacheKey(account) \in DOMAIN cache
    THEN [err |-> "none", ret |-> cache[cacheKey(account)], cache |-> cache, created |-> created]
    ELSE [err |-> "none", ret |-> created + 1,
          cache |-> MapSet(cache, cacheKey(account), created + 1),
          created |-> created + 1]

\* createLarkWSClient: TRUE when it throws instead of constructing a WSClient
createLarkWSClientThrows(account) == validateCredentials(account)


(***************************************************************************)
(* monitor.ts: the message normalizer.  A JavaScript value is a tagged     *)
(* record; an event's content carries its raw text and what JSON.parse     *)
(* makes of it.                                                            *)
(***************************************************************************)
JStr(s) == [t |-> "string", s |-> s]
JNum(digits) == [t |-> "number", s |-> digits]
JNull == [t |-> "null"]
Undefined == [t |-> "undefined"]
JArr(items) == [t |-> "array", items |-> items]
JObj(f) == [t |-> "object", f |-> f]
SyntaxError == [t |-> "syntaxError"]

Nullish(v) == v.t \in {"null", "undefined"}

\* v.name; reading a property of null or undefined is a TypeError
Field(v, name) ==
    IF v.t = "object" /\ name \in DOMAIN v.f THEN v.f[name] ELSE Undefined

\* a ?? ""
OrEmpty(v) == IF Nullish(v) THEN JStr(<<>>) ELSE v

\* Array.prototype.flat(): one level
RECURSIVE Flat(_)
Flat(items) ==
    IF items = <<>> THEN <<>>
    ELSE (IF Head(items).t = "array" THEN Head(items).items ELSE <<Head(items)>>)
         \o Flat(Tail(items))

\* what join("") appends for one element
JoinPiece(v) == IF v.t \in {"string", "number"} THEN v.s ELSE <<>>

\* .filter(item => item.tag === "text").map(item => item.text).join("")
RECURSIVE JoinTextItems(_)
JoinTextItems(items) ==
    IF items = <<>> THEN <<>>
    ELSE (IF Field(Head(items), "tag") = JStr(<<"t", "e", "x", "t">>)
          THEN JoinPiece(Field(Head(items), "text")) ELSE <<>>)
         \o JoinTextItems(Tail(items))

\* some element of the flattened array is null or undefined: item.tag throws
HasNullish(items) == \E i \in 1 .. Len(items) : Nullish(items[i])

T_text == <<"t", "e", "x", "t">>
T_post == <<"p", "o", "s", "t">>
T_image == <<"i", "m", "a", "g", "e">>

\* `[${messageType} message]`
Placeholder(messageType) ==
    <<"[">> \o messageType \o <<" ", "m", "e", "s", "s", "a", "g", "e", "]">>

\* extractText(content, messageType): the value returned
extractText(content, messageType) ==
    IF content.json.t = "syntaxError" THEN JStr(content.raw)
    ELSE IF messageType = T_text
         THEN IF Nullish(content.json) THEN JStr(content.raw)
              ELSE OrEmpty(Field(content.json, "text"))
    ELSE IF messageType = T_post
         THEN IF Nullish(content.json) THEN JStr(content.raw)
              ELSE IF Field(content.json, "content").t = "array"
                   THEN IF HasNullish(Flat(Field(content.json, "content").items))
                        THEN JStr(content.raw)
                        ELSE JStr(JoinTextItems(Flat(Field(content.json, "content").items)))
              ELSE OrEmpty(Field(content.json, "title"))
    ELSE JStr(Placeholder(messageType))

\* a parseMessage that tests the text without trimming it
parseMessageNoTrim(event) ==
    LET text == extractText(event.content, event.message_type)
    IN  IF text.t # "string" THEN [kind |-> "throws"]
        ELSE IF ~Truthy(text.s) THEN [kind |-> "null"]
        ELSE [kind |-> "parsed", messageId |-> event.message_id,
              chatType |-> event.chat_type, text |-> text.s]

\* parseMessage(event): null, a ParsedMessage, or a TypeError because the
\* extracted text is not a string and has no trim()
parseMessage(event) ==
    LET text == extractText(event.content, event.message_type)
    IN  IF text.t # "string" THEN [kind |-> "throws"]
        ELSE IF ~Truthy(Trim(text.s)) THEN [kind |-> "null"]
        ELSE [kind |-> "parsed", messageId |-> event.message_id,
              chatType |-> event.chat_type, text |-> text.s]

\* routeMessage(event, account) up to its await: it throws, returns without
\* routing, or calls api.inbound.handleMessage with a message record
routeMessage(event, account, api) ==
    IF GetLarkRuntimeThrows(api) THEN [kind |-> "throws", err |-> "notInitialized"]
    ELSE LET parsed == parseMessage(event)
         IN  IF parsed.kind = "throws" THEN [kind |-> "throws", err |-> "typeError"]
             ELSE IF parsed.kind = "null" THEN [kind |-> "skip"]
             ELSE [kind |-> "call",
                   msg |-> [channel |-> "lark", accountId |-> account.accountId,
                            messageId |-> event.message_id,
                            chatType |-> IF parsed.chatType = "p2p" THEN "direct" ELSE "group",
                            text |-> parsed.text]]

\* an event handler without the try/catch
onMessageErrorUncaught == [logged |-> 0, propagated |-> 1]

\* the "im.message.receive_v1" handler when routeMessage rejects: it logs
\* the error and resolves
onMessageError == [logged |-> 1, propagated |-> 0]

(***************************************************************************)
(* channel.ts: account resolution.  A stored configuration is the JSON     *)
(* object of the host; the environment gives each LARK_* variable a string *)
(* or nothing.                                                             *)
(***************************************************************************)
JBool(b) == [t |-> "boolean", s |-> b]

DEFAULTS ==
    [domain |-> "lark", connectionMode |-> "websocket", webhookPort |-> 3000,
     dmPolicy |-> "pairing", groupPolicy |-> "open", groupMentionGated |-> TRUE,
     historyLimit |-> 10]

\* cfg.channels?.lark ?? {}
getChannelConfig(cfg) ==
    LET lark == Field(Field(cfg, "channels"), "lark")
    IN  IF Nullish(lark) THEN JObj(EmptyMap) ELSE lark

\* channelConfig.accounts?.[accountId] ?? {}
getAccountConfig(channelConfig, accountId) ==
    LET entry == Field(Field(channelConfig, "accounts"), accountId)
    IN  IF Nullish(entry) THEN JObj(EmptyMap) ELSE entry

\* Boolean(v?.trim())
TrimmedTruthy(v) == ~Nullish(v) /\ Truthy(Trim(v.s))

\* a ?? b for a config field with a default
OrDefault(v, default) == IF Nullish(v) THEN default ELSE v.s

\* a credential lookup that falls back to the environment for every account
CredentialEnvForAll(accountConfig, accountId, env, name, variable) ==
    IF ~Nullish(Field(accountConfig, name)) THEN Field(accountConfig, name)
    ELSE env[variable]

\* accountConfig[name] ?? (isDefault ? process.env[variable] : undefined)
Credential(accountConfig, accountId, env, name, variable) ==
    IF ~Nullish(Field(accountConfig, name)) THEN Field(accountConfig, name)
    ELSE IF accountId = "default" THEN env[variable]
    ELSE Undefined

\* a configured flag that does not trim
ConfiguredNoTrim(appId, appSecret) ==
    /\ ~Nullish(appId) /\ Truthy(appId.s)
    /\ ~Nullish(appSecret) /\ Truthy(appSecret.s)

\* Boolean(appId?.trim() && appSecret?.trim())
Configured(appId, appSecret) == TrimmedTruthy(appId) /\ TrimmedTruthy(appSecret)

\* resolveAccount(cfg, accountId) under the environment env
resolveAccount(cfg, accountId, env) ==
    LET accountConfig == getAccountConfig(getChannelConfig(cfg), accountId)
        appId == Credential(accountConfig, accountId, env, "appId", "LARK_APP_ID")
        appSecret == Credential(accountConfig, accountId, env, "appSecret", "LARK_APP_SECRET")
        encryptKey == Credential(accountConfig, accountId, env, "encryptKey", "LARK_ENCRYPT_KEY")
        verificationToken == Credential(accountConfig, accountId, env,
                                        "verificationToken", "LARK_VERIFICATION_TOKEN")
        get(name) == OrDefault(Field(accountConfig, name), DEFAULTS[name])
    IN  [accountId |-> accountId,
         enabled |-> OrDefault(Field(accountConfig, "enabled"), TRUE),
         configured |-> Configured(appId, appSecret),
         appId |-> OrEmpty(appId).s,
         appSecret |-> OrEmpty(appSecret).s,
         encryptKey |-> encryptKey,
         verificationToken |-> verificationToken,
         domain |-> get("domain"),
         connectionMode |-> get("connectionMode"),
         webhookPort |-> get("webhookPort"),
         dmPolicy |-> get("dmPolicy"),
         dmAllowlist |-> OrDefault(Field(accountConfig, "dmAllowlist"), <<>>),
         groupPolicy |-> get("groupPolicy"),
         groupMentionGated |-> get("groupMentionGated"),
         groupAllowlist |-> OrDefault(Field(accountConfig, "groupAllowlist"), <<>>),
         historyLimit |-> get("historyLimit")]

\* account sections of a stored configuration (LarkAccountConfig)
AccountConfigs ==
    {JObj(EmptyMap),
     JObj([appId |-> JStr(<<"a">>), appSecret |-> JStr(<<"s">>)]),
     JObj([appId |-> JStr(<<>>), appSecret |-> JStr(<<"s">>)]),
     JObj([appId |-> JStr(<<" ">>), appSecret |-> JStr(<<"s">>)]),
     JObj([appId |-> JStr(<<"a">>), appSecret |-> JStr(<<" ", "\t">>)]),
     JObj([appId |-> JStr(<<" ", "a", " ">>), appSecret |-> JStr(<<"s">>),
           enabled |-> JBool(FALSE), domain |-> JStr("feishu"),
           connectionMode |-> JStr("webhook"), webhookPort |-> JNum(8080)]),
     JObj([appId |-> JStr(<<"a">>)]),
     JObj([appId |-> JNull, appSecret |-> JStr(<<"s">>), encryptKey |-> JStr(<<"k">>)]),
     JObj([appId |-> JStr(<<"a">>), appSecret |-> JStr(<<"s">>),
           verificationToken |-> JStr(<<"v">>), enabled |-> JBool(TRUE),
           dmPolicy |-> JStr("open"), historyLimit |-> JNum(5)]),
     JObj([appId |-> JStr(<<"a">>), appSecret |-> JStr(<<"s">>), enabled |-> JBool(FALSE)]),
     JObj([enabled |-> JBool(FALSE), connectionMode |-> JStr("webhook")])}

\* account ids asked for
AccountIds == {"default", "work"}

\* stored configurations (MoltbotConfig): without channels, without a lark
\* section, without accounts, and with one section under each account id
ConfigOf(accounts) == JObj([channels |-> JObj([lark |-> JObj([accounts |-> accounts])])])

StoredConfigs ==
    {JObj(EmptyMap), JObj([channels |-> JObj(EmptyMap)]), ConfigOf(Undefined)}
    \cup {ConfigOf(JObj([default |-> c])) : c \in AccountConfigs}
    \cup {ConfigOf(JObj([work |-> c])) : c \in AccountConfigs}

\* stored configurations the gateway is started from before registration
RuntimeConfigs ==
    {JObj(EmptyMap),
     ConfigOf(JObj([default |-> JObj([appId |-> JStr(<<"a">>), appSecret |-> JStr(<<"s">>)])])),
     ConfigOf(JObj([default |-> JObj([appId |-> JStr(<<"a">>), appSecret |-> JStr(<<"s">>),
                                       enabled |-> JBool(FALSE)])]))}

\* process.env
Env(appId, appSecret, encryptKey, verificationToken) ==
    [LARK_APP_ID |-> appId, LARK_APP_SECRET |-> appSecret,
     LARK_ENCRYPT_KEY |-> encryptKey, LARK_VERIFICATION_TOKEN |-> verificationToken]

Environments ==
    {Env(Undefined, Undefined, Undefined, Undefined),
     Env(JStr(<<"e">>), JStr(<<"t">>), JStr(<<"x">>), JStr(<<"y">>)),
     Env(JStr(<<" ">>), JStr(<<"t">>), Undefined, Undefined),
     Env(JStr(<<"e">>), Undefined, Undefined, JStr(<<"y">>)),
     Env(JStr(<<>>), JStr(<<"t">>), JStr(<<"x">>), Undefined)}

\* the descriptors resolveAccount returns, which the host hands to the gateway
ResolvedAccounts ==
    {resolveAccount(cfg, accountId, env) :
        cfg \in StoredConfigs, accountId \in AccountIds, env \in Environments}

\* the descriptors of account "default" the gateway is started with before
\* registration
RuntimeAccounts ==
    {resolveAccount(cfg, "default", env) : cfg \in RuntimeConfigs, env \in Environments}

(***************************************************************************)
(* channel.ts: the outbound sender.                                        *)
(***************************************************************************)
StartsWith(s, prefix) ==
    Len(s) >= Len(prefix) /\ SubSeq(s, 1, Len(prefix)) = prefix

\* inferReceiveIdType
inferReceiveIdType(recipientId) ==
    IF StartsWith(recipientId, <<"o", "c", "_">>) THEN "chat_id" ELSE "open_id"

\* the argument of client.im.message.create; a falsy threadId adds no root_id
CreateRequest(recipientId, text, threadId) ==
    [t |-> "object",
     receive_id_type |-> inferReceiveIdType(recipientId),
     receive_id |-> recipientId,
     msg_type |-> "text",
     content |-> text,
     root_id |-> IF threadId.t = "string" /\ Truthy(threadId.s) THEN threadId ELSE Undefined]

\* what client.im.message.create does: it resolves with a response, resolves
\* with nothing, throws or rejects with an Error, or with something else
Response(code, msg, data) == [kind |-> "response", code |-> code, msg |-> msg, data |-> data]

ProviderOutcomes ==
    {Response(0, JStr("success"), JObj([message_id |-> JStr("om_1")])),
     Response(0, JStr("success"), JObj(EmptyMap)),
     Response(0, JStr("success"), Undefined),
     Response(0, Undefined, JNull),
     Response(99991663, JStr("token invalid"), Undefined),
     Response(230001, JStr("bad request"), JObj([message_id |-> JStr("om_2")])),
     Response(1, Undefined, Undefined),
     Response(1, JStr(""), Undefined),
     [kind |-> "noResponse"],
     [kind |-> "throwsError", message |-> "network down"],
     [kind |-> "throwsOther"]}

\* the try block of sendTextMessage once it has a client: what it returns,
\* or the error it throws
SendAttempt(outcome) ==
    IF outcome.kind = "throwsError"
    THEN [threw |-> TRUE, isError |-> TRUE, message |-> outcome.message]
    ELSE IF outcome.kind = "throwsOther"
    THEN [threw |-> TRUE, isError |-> FALSE, message |-> ""]
    ELSE IF outcome.kind = "noResponse"
    THEN [threw |-> TRUE, isError |-> TRUE, message |-> "Cannot read properties of undefined"]
    ELSE IF outcome.code = 0 /\ ~Nullish(outcome.data)
    THEN [threw |-> FALSE, result |-> [ok |-> TRUE, messageId |-> Field(outcome.data, "message_id")]]
    ELSE [threw |-> FALSE,
          result |-> [ok |-> FALSE,
                      error |-> IF Nullish(outcome.msg) THEN JStr("Unknown error")
                                ELSE outcome.msg]]

\* the catch block of sendTextMessage
SendCatch(isError, message) ==
    [ok |-> FALSE, error |-> IF isError THEN JStr(message) ELSE JStr("Unknown error")]

\* a sendTextMessage without its try/catch
sendTextMessageNoCatch(cache, created, account, outcome) ==
    LET c == createLarkClient(cache, created, account)
        a == SendAttempt(outcome)
    IN  IF c.err # "none"
        THEN [err |-> c.err, result |-> [ok |-> FALSE], called |-> FALSE,
              cache |-> c.cache, created |-> c.created]
        ELSE IF a.threw
        THEN [err |-> "providerError", result |-> [ok |-> FALSE], called |-> TRUE,
              cache |-> c.cache, created |-> c.created]
        ELSE [err |-> "none", result |-> a.result, called |-> TRUE,
              cache |-> c.cache, created |-> c.created]

\* a sendTextMessage that takes any response with a payload for a success
sendTextMessageIgnoresCode(cache, created, account, outcome) ==
    LET c == createLarkClient(cache, created, account)
        a == SendAttempt(outcome)
    IN  IF c.err # "none"
        THEN [err |-> "none",
              result |-> SendCatch(TRUE, "Lark appId and appSecret are required"),
              called |-> FALSE, cache |-> c.cache, created |-> c.created]
        ELSE IF outcome.kind = "response" /\ ~Nullish(outcome.data)
        THEN [err |-> "none",
              result |-> [ok |-> TRUE, messageId |-> Field(outcome.data, "message_id")],
              called |-> TRUE, cache |-> c.cache, created |-> c.created]
        ELSE [err |-> "none",
              result |-> IF a.threw THEN SendCatch(a.isError, a.message) ELSE a.result,
              called |-> TRUE, cache |-> c.cache, created |-> c.created]

\* sendTextMessage: the error it lets out (none), the SendResult, whether the
\* provider was called, and the client cache afterwards
sendTextMessage(cache, created, account, outcome) ==
    LET c == createLarkClient(cache, created, account)
        a == SendAttempt(outcome)
    IN  IF c.err # "none"
        THEN [err |-> "none",
              result |-> SendCatch(TRUE, "Lark appId and appSecret are required"),
              called |-> FALSE, cache |-> c.cache, created |-> c.created]
        ELSE [err |-> "none",
              result |-> IF a.threw THEN SendCatch(a.isError, a.message) ELSE a.result,
              called |-> TRUE, cache |-> c.cache, created |-> c.created]

(***************************************************************************)
(* monitor.ts: the connection manager.  A manager state is the two slots   *)
(* and the webhook servers' stop counters.                                 *)
(***************************************************************************)
ConnState(ws, wh, servers) == [ws |-> ws, wh |-> wh, servers |-> servers]

\* webhookServer.stop() on server i
StopServer(servers, i) ==
    [servers EXCEPT ![i].stopCalls = servers[i].stopCalls + 1]

\* a stopMonitor that clears the callback slot without stopping the listener
stopMonitorNoStop(st) == ConnState(NULL, NULL, st.servers)

\* a stopMonitor that stops the listener and forgets to clear its slot
stopMonitorKeepsSlot(st) ==
    ConnState(NULL, st.wh,
              IF st.wh # NULL THEN StopServer(st.servers, st.wh) ELSE st.servers)

\* stopMonitor
stopMonitor(st) ==
    ConnState(NULL, NULL,
              IF st.wh # NULL THEN StopServer(st.servers, st.wh) ELSE st.servers)

\* the abort listener startWebSocket registers: stopMonitor()
WsAbortListener(st) == stopMonitor(st)

\* the abort listener monitorLarkProvider registers for its own webhookServer
WebhookAbortListener(st, server) ==
    ConnState(st.ws, NULL, StopServer(st.servers, server))

RunListener(st, l) ==
    IF l.kind = "ws" THEN WsAbortListener(st) ELSE WebhookAbortListener(st, l.server)

\* the listeners of one signal run in registration order
RECURSIVE RunListeners(_, _)
RunListeners(st, ls) ==
    IF ls = <<>> THEN st ELSE RunListeners(RunListener(st, Head(ls)), Tail(ls))

\* abortSignal.addEventListener("abort", l, { once: true }); 0 is "no signal".
\* An AbortSignal fires its event once: a listener added afterwards is never
\* dispatched, and is not kept.
AddListener(sigs, sig, l) ==
    IF sig = NULL \/ sigs[sig].aborted THEN sigs
    ELSE [sigs EXCEPT ![sig].listeners = Append(sigs[sig].listeners, l)]


\* thread ids: none, the empty string, a root message id
ThreadIds == {Undefined, JStr(<<>>), JStr(<<"o", "m", "_", "0">>)}

(***************************************************************************)
(* Inbound events (LarkMessageEvent): the fields the normalizer reads.     *)
(***************************************************************************)
Content(raw, json) == [raw |-> raw, json |-> json]

TextItem(text) == JObj([tag |-> JStr(T_text), text |-> JStr(text)])
AtItem == JObj([tag |-> JStr(<<"a", "t">>)])

Contents == <<
    \* {"text":"hi"}
    Content(<<"{", "text", ":", "hi", "}">>, JObj([text |-> JStr(<<"h", "i">>)])),
    \* {"text":" \t"}
    Content(<<"{", "text", ":", " ", "\t", "}">>, JObj([text |-> JStr(<<" ", "\t">>)])),
    \* {"text":" hi "}
    Content(<<"{", "text", ":", " ", "hi", " ", "}">>, JObj([text |-> JStr(<<" ", "h", "i", " ">>)])),
    \* {}
    Content(<<"{", "}">>, JObj(EmptyMap)),
    \* {"text":5}
    Content(<<"{", "text", ":", "5", "}">>, JObj([text |-> JNum(<<"5">>)])),
    \* {"text":null}
    Content(<<"{", "text", ":", "null", "}">>, JObj([text |-> JNull])),
    \* hey  (not JSON)
    Content(<<"h", "e", "y">>, SyntaxError),
    \* two spaces (not JSON)
    Content(<<" ", " ">>, SyntaxError),
    \* the empty string (not JSON)
    Content(<<>>, SyntaxError),
    \* null
    Content(<<"n", "u", "l", "l">>, JNull),
    \* 5
    Content(<<"5">>, JNum(<<"5">>)),
    \* {"content":[[{"tag":"text","text":"a"},{"tag":"at"}],[{"tag":"text","text":"b"}]]}
    Content(<<"{", "content", ":", "[", "a", "@", "b", "]", "}">>,
            JObj([content |-> JArr(<<JArr(<<TextItem(<<"a">>), AtItem>>),
                                     JArr(<<TextItem(<<"b">>)>>)>>)])),
    \* {"content":[[{"tag":"at"}]],"title":"T"}
    Content(<<"{", "content", ":", "[", "@", "]", "title", ":", "T", "}">>,
            JObj([content |-> JArr(<<JArr(<<AtItem>>)>>), title |-> JStr(<<"T">>)])),
    \* {"content":[null]}
    Content(<<"{", "content", ":", "[", "null", "]", "}">>,
            JObj([content |-> JArr(<<JNull>>)])),
    \* {"title":"T"}
    Content(<<"{", "title", ":", "T", "}">>, JObj([title |-> JStr(<<"T">>)])),
    \* {"image_key":"k"}
    Content(<<"{", "image_key", ":", "k", "}">>, JObj([image_key |-> JStr(<<"k">>)]))
>>

MessageTypes == <<T_text, T_post, T_image>>

Event(c, t) ==
    [message_id |-> 10 * c + t,
     chat_type |-> IF (c + t) % 2 = 0 THEN "p2p" ELSE "group",
     message_type |-> MessageTypes[t],
     content |-> Contents[c]]

\* every content under every message type
Events == {Event(c, t) : c \in 1 .. Len(Contents), t \in 1 .. Len(MessageTypes)}

\* the events of a routing run: one that is routed, one dropped as blank,
\* one on which the normalizer throws
RouteEvents == {Event(1, 1), Event(2, 1), Event(5, 1)}

\* the events of an ordering run: two different ones that are routed and one
\* dropped as blank
OrderEvents == {Event(1, 1), Event(3, 1), Event(2, 1)}

\* how the host's handleMessage answers a call: a promise that settles
\* later, or a synchronous throw
\* the event delivered beside the readers of the runtime context
RuntimeEvents == {Event(1, 1)}

HandlerAnswers == {"pending", "throws"}

\* the record of a call: the operation, the account it was given ("" when it
\* takes none), how it ended, what it returned, and the slots and the cache
\* size it found
Call(op, arg, err, ret) ==
    [op |-> op, arg |-> arg, err |-> err, ret |-> ret,
     ws0 |-> activeWsClient, wh0 |-> activeWebhookServer,
     cached0 |-> Cardinality(DOMAIN clientCache)]

(***************************************************************************)
(* Initial state: the modules as loaded.                                   *)
(***************************************************************************)
Init ==
    /\ pluginApi = "null"
    /\ activeWsClient = NULL
    /\ activeWebhookServer = NULL
    /\ clientCache = EmptyMap
    /\ clientsCreated = 0
    /\ wsClients = <<>>
    /\ webhookServers = <<>>
    /\ signals = [s \in SignalIds |-> [aborted |-> FALSE, listeners |-> <<>>]]
    /\ received = <<>>
    /\ inboundCalls = <<>>
    /\ errorsLogged = 0
    /\ errorsPropagated = 0
    /\ issued = [before |-> {}, since |-> {}]
    /\ last = [op |-> "load", arg |-> "", err |-> "none", ret |-> NULL,
               ws0 |-> NULL, wh0 |-> NULL, cached0 |-> 0]

(***************************************************************************)
(* Operations.  `limit` caps the connections, clients or events of a run.  *)
(***************************************************************************)
Connections == Len(wsClients) + Len(webhookServers)

\* plugin.register -> setLarkRuntime(api)
SetLarkRuntime ==
    /\ pluginApi' = "api"
    /\ last' = Call("setLarkRuntime", "", "none", NULL)
    /\ UNCHANGED <<connVars, cacheVars, routeVars>>

\* startWebSocket(account, abortSignal), reached with the runtime set
StartWebSocket(account, sig, limit) ==
    IF createLarkWSClientThrows(account)
    THEN /\ last' = Call("monitorLarkProvider", account.accountId, "missingCredentials", NULL)
         /\ UNCHANGED <<connVars>>
    ELSE /\ Connections < limit
         /\ wsClients' = Append(wsClients, [account |-> account, started |-> TRUE])
         /\ activeWsClient' = Len(wsClients) + 1
         /\ signals' = AddListener(signals, sig, [kind |-> "ws", server |-> NULL])
         /\ last' = Call("monitorLarkProvider", account.accountId, "none", Len(wsClients) + 1)
         /\ UNCHANGED <<activeWebhookServer, webhookServers>>

\* a webhook branch that listens on the default port
StartWebhookDefaultPort(account, sig, limit) ==
    /\ Connections < limit
    /\ webhookServers' = Append(webhookServers,
            [account |-> account, port |-> 3000, signal |-> sig, stopCalls |-> 0])
    /\ activeWebhookServer' = Len(webhookServers) + 1
    /\ signals' = AddListener(signals, sig,
            [kind |-> "webhook", server |-> Len(webhookServers) + 1])
    /\ last' = Call("monitorLarkProvider", account.accountId, "none", Len(webhookServers) + 1)
    /\ UNCHANGED <<activeWsClient, wsClients>>

\* a webhook branch that stops the listener in the slot before it starts one
StartWebhookStopsPrior(account, sig, limit) ==
    /\ Connections < limit
    /\ webhookServers' = Append(
            IF activeWebhookServer # NULL
            THEN StopServer(webhookServers, activeWebhookServer) ELSE webhookServers,
            [account |-> account, port |-> account.webhookPort,
             signal |-> sig, stopCalls |-> 0])
    /\ activeWebhookServer' = Len(webhookServers) + 1
    /\ signals' = AddListener(signals, sig,
            [kind |-> "webhook", server |-> Len(webhookServers) + 1])
    /\ last' = Call("monitorLarkProvider", account.accountId, "none", Len(webhookServers) + 1)
    /\ UNCHANGED <<activeWsClient, wsClients>>

\* the webhook branch of monitorLarkProvider
StartWebhook(account, sig, limit) ==
    /\ Connections < limit
    /\ webhookServers' = Append(webhookServers,
            [account |-> account, port |-> account.webhookPort,
             signal |-> sig, stopCalls |-> 0])
    /\ activeWebhookServer' = Len(webhookServers) + 1
    /\ signals' = AddListener(signals, sig,
            [kind |-> "webhook", server |-> Len(webhookServers) + 1])
    /\ last' = Call("monitorLarkProvider", account.accountId, "none", Len(webhookServers) + 1)
    /\ UNCHANGED <<activeWsClient, wsClients>>

\* monitorLarkProvider({ account, abortSignal })
MonitorLarkProvider(account, sig, limit) ==
    /\ IF GetLarkRuntimeThrows(pluginApi)
       THEN /\ last' = Call("monitorLarkProvider", account.accountId, "notInitialized", NULL)
            /\ UNCHANGED <<connVars>>
       ELSE IF account.connectionMode = "websocket"
       THEN StartWebSocket(account, sig, limit)
       ELSE StartWebhook(account, sig, limit)
    /\ UNCHANGED <<pluginApi, cacheVars, routeVars>>

\* a gateway.startAccount without the configured and enabled guards
GatewayStartAccountNoGuard(account, sig, limit) ==
    IF GetLarkRuntimeThrows(pluginApi)
    THEN /\ last' = Call("startAccount", account.accountId, "notInitialized", NULL)
         /\ UNCHANGED <<pluginApi, connVars, cacheVars, routeVars>>
    ELSE MonitorLarkProvider(account, sig, limit)

\* gateway.startAccount({ account, abortSignal }); past its guards the call is
\* the monitorLarkProvider call it awaits
GatewayStartAccount(account, sig, limit) ==
    IF GetLarkRuntimeThrows(pluginApi)
    THEN /\ last' = Call("startAccount", account.accountId, "notInitialized", NULL)
         /\ UNCHANGED <<pluginApi, connVars, cacheVars, routeVars>>
    ELSE IF ~account.configured
    THEN /\ last' = Call("startAccount", account.accountId, "none",
                         [skipped |-> "notConfigured", account |-> account])
         /\ UNCHANGED <<pluginApi, connVars, cacheVars, routeVars>>
    ELSE IF ~account.enabled
    THEN /\ last' = Call("startAccount", account.accountId, "none",
                         [skipped |-> "disabled", account |-> account])
         /\ UNCHANGED <<pluginApi, connVars, cacheVars, routeVars>>
    ELSE MonitorLarkProvider(account, sig, limit)

\* stopMonitor()
StopMonitor ==
    LET st == stopMonitor(ConnState(activeWsClient, activeWebhookServer, webhookServers))
    IN  /\ activeWsClient' = st.ws
        /\ activeWebhookServer' = st.wh
        /\ webhookServers' = st.servers
        /\ last' = Call("stopMonitor", "", "none", NULL)
        /\ UNCHANGED <<pluginApi, wsClients, signals, cacheVars, routeVars>>

\* the host aborts signal sig: its "abort" event fires once, the once-listeners
\* run in registration order and are removed
Abort(sig) ==
    /\ ~signals[sig].aborted
    /\ LET st == RunListeners(
                    ConnState(activeWsClient, activeWebhookServer, webhookServers),
                    signals[sig].listeners)
       IN  /\ activeWsClient' = st.ws
           /\ activeWebhookServer' = st.wh
           /\ webhookServers' = st.servers
    /\ signals' = [signals EXCEPT ![sig] = [aborted |-> TRUE, listeners |-> <<>>]]
    /\ last' = Call("abort", "", "none", sig)
    /\ UNCHANGED <<pluginApi, wsClients, cacheVars, routeVars>>

\* createLarkClient(account)
CreateLarkClient(account, limit) ==
    LET r == createLarkClient(clientCache, clientsCreated, account)
    IN  /\ r.created <= limit
        /\ clientCache' = r.cache
        /\ clientsCreated' = r.created
        /\ issued' = IF r.err = "none"
                      THEN [issued EXCEPT !.since = @ \cup {<<Triple(account), r.ret>>}]
                      ELSE issued
        /\ last' = Call("createLarkClient", account.accountId, r.err, r.ret)
        /\ UNCHANGED <<pluginApi, connVars, routeVars>>

\* createLarkWSClient(account), called on its own: a WSClient nobody started
CreateLarkWSClient(account, limit) ==
    /\ IF createLarkWSClientThrows(account)
       THEN /\ last' = Call("createLarkWSClient", account.accountId, "missingCredentials", NULL)
            /\ UNCHANGED wsClients
       ELSE /\ Connections < limit
            /\ wsClients' = Append(wsClients, [account |-> account, started |-> FALSE])
            /\ last' = Call("createLarkWSClient", account.accountId, "none", Len(wsClients) + 1)
    /\ UNCHANGED <<pluginApi, activeWsClient, activeWebhookServer, webhookServers,
                   signals, cacheVars, routeVars>>

\* a clearClientCache that also drops the active socket connection
ClearClientCacheDropsSocket ==
    /\ clientCache' = EmptyMap
    /\ issued' = [before |-> issued.before \cup issued.since, since |-> {}]
    /\ activeWsClient' = NULL
    /\ last' = Call("clearClientCache", "", "none", NULL)
    /\ UNCHANGED <<pluginApi, clientsCreated, activeWebhookServer, wsClients,
                   webhookServers, signals, routeVars>>

\* resolveAccount(cfg, accountId) with process.env = env
ResolveAccount(cfg, accountId, env) ==
    /\ last' = Call("resolveAccount", accountId, "none",
                    [cfg |-> cfg, env |-> env, account |-> resolveAccount(cfg, accountId, env)])
    /\ UNCHANGED <<pluginApi, connVars, cacheVars, routeVars>>

\* sendTextMessage(account, recipientId, text, threadId), with the provider
\* answering by `outcome`
SendTextMessage(account, recipientId, text, threadId, outcome, limit) ==
    LET r == sendTextMessage(clientCache, clientsCreated, account, outcome)
    IN  /\ r.created <= limit
        /\ clientCache' = r.cache
        /\ clientsCreated' = r.created
        /\ issued' = IF r.called
                      THEN [issued EXCEPT !.since = @ \cup {<<Triple(account), r.cache[cacheKey(account)]>>}]
                      ELSE issued
        /\ last' = Call("sendTextMessage", account.accountId, r.err,
                        [result |-> r.result, outcome |-> outcome,
                         request |-> IF r.called
                                     THEN CreateRequest(recipientId, text, threadId)
                                     ELSE Undefined])
        /\ UNCHANGED <<pluginApi, connVars, routeVars>>

\* clearClientCache()
ClearClientCache ==
    /\ clientCache' = EmptyMap
    /\ issued' = [before |-> issued.before \cup issued.since, since |-> {}]
    /\ last' = Call("clearClientCache", "", "none", NULL)
    /\ UNCHANGED <<pluginApi, clientsCreated, connVars, routeVars>>

\* a started WSClient receives events until the process ends: nothing in
\* this layer closes it
Deliverable(c) == c \in 1 .. Len(wsClients) /\ wsClients[c].started

\* a handler that puts the newest call in front of the ones not yet made
DeliverNewestFirst(c, ev, h, limit) ==
    /\ Deliverable(c)
    /\ Len(received) < limit
    /\ received' = Append(received, [conn |-> c, event |-> ev])
    /\ LET r == routeMessage(ev, wsClients[c].account, pluginApi)
           failed == r.kind = "throws" \/ (r.kind = "call" /\ h = "throws")
       IN  /\ inboundCalls' =
                 IF r.kind = "call"
                 THEN <<[conn |-> c, arrival |-> Len(received) + 1, msg |-> r.msg,
                         status |-> IF h = "throws" THEN "threw" ELSE "pending"]>>
                      \o inboundCalls
                 ELSE inboundCalls
           /\ errorsLogged' = errorsLogged + (IF failed THEN onMessageError.logged ELSE 0)
           /\ errorsPropagated' =
                 errorsPropagated + (IF failed THEN onMessageError.propagated ELSE 0)
           /\ last' = Call("deliver", "", IF failed THEN "handlerError" ELSE "none", r.kind)
    /\ UNCHANGED <<pluginApi, connVars, cacheVars>>

\* the vendor dispatcher hands event ev of connection c to the registered
\* "im.message.receive_v1" handler; h is how handleMessage answers
Deliver(c, ev, h, limit) ==
    /\ Deliverable(c)
    /\ Len(received) < limit
    /\ received' = Append(received, [conn |-> c, event |-> ev])
    /\ LET r == routeMessage(ev, wsClients[c].account, pluginApi)
           failed == r.kind = "throws" \/ (r.kind = "call" /\ h = "throws")
       IN  /\ inboundCalls' =
                 IF r.kind = "call"
                 THEN Append(inboundCalls,
                             [conn |-> c, arrival |-> Len(received) + 1, msg |-> r.msg,
                              status |-> IF h = "throws" THEN "threw" ELSE "pending"])
                 ELSE inboundCalls
           /\ errorsLogged' = errorsLogged + (IF failed THEN onMessageError.logged ELSE 0)
           /\ errorsPropagated' =
                 errorsPropagated + (IF failed THEN onMessageError.propagated ELSE 0)
           /\ last' = Call("deliver", "", IF failed THEN "handlerError" ELSE "none", r.kind)
    /\ UNCHANGED <<pluginApi, connVars, cacheVars>>

\* the promise of handleMessage call i settles
Settle(i, outcome) ==
    /\ i \in 1 .. Len(inboundCalls)
    /\ inboundCalls[i].status = "pending"
    /\ inboundCalls' = [inboundCalls EXCEPT ![i].status = outcome]
    /\ errorsLogged' =
          errorsLogged + (IF outcome = "rejected" THEN onMessageError.logged ELSE 0)
    /\ errorsPropagated' =
          errorsPropagated + (IF outcome = "rejected" THEN onMessageError.propagated ELSE 0)
    /\ last' = Call("settle", "", IF outcome = "rejected" THEN "handlerError" ELSE "none", i)
    /\ UNCHANGED <<pluginApi, connVars, cacheVars, received>>

(***************************************************************************)
(* Specifications.                                                         *)
(***************************************************************************)
\* the connection manager under every start, stop and abort
Next ==
    \/ SetLarkRuntime
    \/ \E account \in MonitorAccounts, sig \in {NULL} \cup SignalIds :
          MonitorLarkProvider(account, sig, MaxConnections)
    \/ StopMonitor
    \/ \E sig \in SignalIds : Abort(sig)

Spec == Init /\ [][Next]_vars

\* the REST client cache under every account of the catalogue
NextCache ==
    \/ \E account \in ClientAccounts : CreateLarkClient(account, MaxClients)
    \/ ClearClientCache

SpecCache == Init /\ [][NextCache]_vars

\* the client factory beside running connections
NextClient ==
    \/ SetLarkRuntime
    \/ \E account \in {AcctSocket, AcctCallback}, sig \in {NULL, 1} :
          MonitorLarkProvider(account, sig, MaxAuxConns)
    \/ StopMonitor
    \/ Abort(1)
    \/ \E account \in FactoryAccounts : CreateLarkClient(account, MaxAuxClients)
    \/ \E account \in FactoryAccounts : CreateLarkWSClient(account, MaxAuxConns)
    \/ ClearClientCache

SpecClient == Init /\ [][NextClient]_vars

\* message routing on socket connections
NextRoute ==
    \/ SetLarkRuntime
    \/ \E sig \in {NULL, 1} : MonitorLarkProvider(AcctSocket, sig, MaxAuxConns)
    \/ StopMonitor
    \/ Abort(1)
    \/ \E c \in 1 .. MaxAuxConns + 1, ev \in RouteEvents, h \in HandlerAnswers :
          Deliver(c, ev, h, MaxInbound)
    \/ \E i \in 1 .. MaxInbound + 1, outcome \in {"resolved", "rejected"} :
          Settle(i, outcome)

SpecRoute == Init /\ [][NextRoute]_vars

\* the order of handler calls on socket connections
NextOrder ==
    \/ SetLarkRuntime
    \/ \E sig \in {NULL, 1} : MonitorLarkProvider(AcctSocket, sig, MaxAuxConns)
    \/ StopMonitor
    \/ Abort(1)
    \/ \E c \in 1 .. MaxAuxConns + 1, ev \in OrderEvents, h \in HandlerAnswers :
          Deliver(c, ev, h, MaxInbound)
    \/ \E i \in 1 .. MaxInbound + 1, outcome \in {"resolved", "rejected"} :
          Settle(i, outcome)

SpecOrder == Init /\ [][NextOrder]_vars

\* account resolution over the stored configurations and environments
NextResolve ==
    \E cfg \in StoredConfigs, accountId \in AccountIds, env \in Environments :
        ResolveAccount(cfg, accountId, env)

SpecResolve == Init /\ [][NextResolve]_vars

\* the gateway starting the accounts that resolveAccount returns
NextGateway ==
    \/ SetLarkRuntime
    \/ \E account \in ResolvedAccounts, sig \in {NULL, 1} :
          GatewayStartAccount(account, sig, MaxAuxConns)
    \/ StopMonitor
    \/ Abort(1)

SpecGateway == Init /\ [][NextGateway]_vars

\* every reader of the runtime context, before and after registration
NextRuntime ==
    \/ SetLarkRuntime
    \/ \E account \in {AcctSocket, AcctCallback, AcctNoId}, sig \in {NULL, 1} :
          MonitorLarkProvider(account, sig, MaxAuxConns)
    \/ \E account \in RuntimeAccounts, sig \in {NULL, 1} :
          GatewayStartAccount(account, sig, MaxAuxConns)
    \/ \E c \in 1 .. MaxAuxConns + 1, ev \in RuntimeEvents, h \in HandlerAnswers :
          Deliver(c, ev, h, MaxNormalized)
    \/ CreateLarkClient(AcctSocket, MaxAuxClients)
    \/ StopMonitor

SpecRuntime == Init /\ [][NextRuntime]_vars

\* outbound sends under every provider outcome
NextSend ==
    \/ \E account \in SendAccounts, recipientId \in RecipientIds, text \in SendTexts,
          threadId \in ThreadIds, outcome \in ProviderOutcomes :
          SendTextMessage(account, recipientId, text, threadId, outcome, MaxAuxClients)
    \/ ClearClientCache

SpecSend == Init /\ [][NextSend]_vars

\* the normalizer over every event of the catalogue
NextNormalize ==
    \/ SetLarkRuntime
    \/ MonitorLarkProvider(AcctSocket, NULL, MaxAuxConns)
    \/ \E c \in 1 .. MaxAuxConns + 1, ev \in Events, h \in HandlerAnswers :
          Deliver(c, ev, h, MaxNormalized)

SpecNormalize == Init /\ [][NextNormalize]_vars

(***************************************************************************)
(* Properties.                                                             *)
(***************************************************************************)
progVars == <<pluginApi, connVars, clientCache, clientsCreated, routeVars>>

\* C1: at most one connection is active: the socket slot and the
\* callback-listener slot are never both occupied.
C1_AtMostOneActive == ~(activeWsClient # NULL /\ activeWebhookServer # NULL)

\* C2: the stop operation of a callback listener started with a cancellation
\* signal is never invoked twice, whatever the order of stopMonitor() and
\* the signal firing.
C2_ListenerStoppedOnce ==
    \A i \in 1 .. Len(webhookServers) :
        webhookServers[i].signal # NULL => webhookServers[i].stopCalls <= 1

\* C3: when stopMonitor() returns both slots are empty, and the listener
\* that occupied the callback slot, and no other, had its stop operation
\* invoked once by the call.
C3_StopLeavesIdle ==
    [][last'.op = "stopMonitor" =>
          /\ last'.err = "none"
          /\ activeWsClient' = NULL
          /\ activeWebhookServer' = NULL
          /\ Len(webhookServers') = Len(webhookServers)
          /\ \A i \in 1 .. Len(webhookServers) :
                webhookServers'[i].stopCalls =
                    webhookServers[i].stopCalls + (IF i = activeWebhookServer THEN 1 ELSE 0)
      ]_vars

C3_Witness ==
    /\ last.op = "stopMonitor"
    /\ last.wh0 # NULL
    /\ last.ws0 # NULL
    /\ activeWebhookServer = NULL
    /\ webhookServers[last.wh0].stopCalls = 1

\* C4: stopMonitor() with both slots empty raises nothing and changes
\* neither the slots, the listeners' stop counters, the client cache nor the
\* runtime context; a stopMonitor() right after a stopMonitor() changes
\* nothing either.
C4_StopWhenIdleIsNoOp ==
    [][(/\ last'.op = "stopMonitor"
        /\ \/ (activeWsClient = NULL /\ activeWebhookServer = NULL)
           \/ last.op = "stopMonitor")
       => (last'.err = "none" /\ UNCHANGED progVars)
      ]_vars

C4_Witness ==
    /\ last.op = "stopMonitor"
    /\ last.ws0 = NULL
    /\ last.wh0 = NULL
    /\ pluginApi = "api"
    /\ Len(webhookServers) > 0
    /\ clientCache # EmptyMap

\* C5: a monitorLarkProvider call that returns normally branches on the
\* connection mode alone: in socket mode it constructs one WSClient for the
\* account, starts it and puts it in the socket slot, and starts no
\* callback listener; in callback mode it starts one listener on the
\* account's webhookPort and puts it in the callback slot, and constructs
\* no WSClient.  A call that throws creates nothing.
C5_StartBranchesOnMode ==
    [][last'.op = "monitorLarkProvider" =>
          LET account == AccountById(last'.arg)
          IN  IF last'.err # "none"
              THEN UNCHANGED connVars
              ELSE IF account.connectionMode = "websocket"
              THEN /\ wsClients' = Append(wsClients, [account |-> account, started |-> TRUE])
                   /\ activeWsClient' = Len(wsClients')
                   /\ UNCHANGED <<webhookServers, activeWebhookServer>>
              ELSE /\ Len(webhookServers') = Len(webhookServers) + 1
                   /\ SubSeq(webhookServers', 1, Len(webhookServers)) = webhookServers
                   /\ webhookServers'[Len(webhookServers')].account = account
                   /\ webhookServers'[Len(webhookServers')].port = account.webhookPort
                   /\ webhookServers'[Len(webhookServers')].stopCalls = 0
                   /\ activeWebhookServer' = Len(webhookServers')
                   /\ UNCHANGED <<wsClients, activeWsClient>>
      ]_vars

C5_Witness ==
    /\ last.op = "monitorLarkProvider"
    /\ last.err = "none"
    /\ AccountById(last.arg).connectionMode = "webhook"
    /\ AccountById(last.arg).webhookPort # 3000
    /\ activeWebhookServer = Len(webhookServers)
    /\ activeWsClient = Len(wsClients)
    /\ Len(wsClients) > 0

\* the number of components in which two credential triples differ
Differences(t, u) == Cardinality({k \in 1 .. 3 : t[k] # u[k]})

\* C6: with no clearClientCache in between, createLarkClient returns the
\* same client for the same (appId, appSecret, domain) and different
\* clients for triples that differ in exactly one component; a client
\* returned after a clearClientCache was never returned before it.
C6_CacheByCredentials ==
    /\ \A p, q \in issued.since :
          /\ p[1] = q[1] => p[2] = q[2]
          /\ Differences(p[1], q[1]) = 1 => p[2] # q[2]
    /\ \A p \in issued.before, q \in issued.since : p[2] # q[2]

C6_Witness ==
    /\ last.op = "createLarkClient"
    /\ last.err = "none"
    /\ last.ret < clientsCreated
    /\ last.cached0 > 1
    /\ \E p \in issued.before, q \in issued.since : p[1] = q[1]
    /\ \E p, q \in issued.since : Differences(p[1], q[1]) = 1

\* C7: clearClientCache() empties the client cache and leaves the socket
\* slot, the callback slot, the connections and the registered abort
\* listeners as they were; every connection that was receiving events
\* still receives them.
C7_ClearLeavesConnections ==
    [][last'.op = "clearClientCache" =>
          /\ clientCache' = EmptyMap
          /\ UNCHANGED connVars
          /\ \A c \in 1 .. Len(wsClients) : Deliverable(c) => Deliverable(c)'
      ]_vars

C7_Witness ==
    /\ last.op = "clearClientCache"
    /\ last.cached0 > 0
    /\ last.ws0 # NULL
    /\ activeWsClient = last.ws0
    /\ Deliverable(activeWsClient)
    /\ signals[1].listeners # <<>>
    /\ clientCache = EmptyMap

\* C8: createLarkClient and createLarkWSClient fail with the
\* missing-credentials error for every account whose appId or appSecret is
\* empty after trimming.
C8_BlankCredentialsRejected ==
    (/\ last.op \in {"createLarkClient", "createLarkWSClient"}
     /\ \/ Trim(AccountById(last.arg).appId) = <<>>
        \/ Trim(AccountById(last.arg).appSecret) = <<>>)
    => last.err = "missingCredentials"

\* what routeMessage makes of received event k
Routed(k) == routeMessage(received[k].event, wsClients[received[k].conn].account, pluginApi)

Failures ==
    Cardinality({k \in 1 .. Len(received) : Routed(k).kind = "throws"})
    + Cardinality({i \in 1 .. Len(inboundCalls) :
                      inboundCalls[i].status \in {"threw", "rejected"}})

\* C9: in socket mode an error raised while routing one message is logged
\* by the event handler and never reaches the vendor dispatcher; the slots
\* and connections are untouched, and every event received afterwards that
\* has text is still handed to the host handler.
C9_HandlerErrorsContained ==
    [][last'.op \in {"deliver", "settle"} =>
          /\ errorsPropagated' = 0
          /\ errorsLogged' = Failures'
          /\ UNCHANGED connVars
          /\ last'.op = "deliver" =>
                LET k == Len(received')
                    r == routeMessage(received'[k].event,
                                      wsClients[received'[k].conn].account, pluginApi)
                IN  /\ k = Len(received) + 1
                    /\ r.kind = "call" =>
                          /\ Len(inboundCalls') = Len(inboundCalls) + 1
                          /\ inboundCalls'[Len(inboundCalls')].msg = r.msg
                          /\ inboundCalls'[Len(inboundCalls')].arrival = k
                    /\ r.kind # "call" => inboundCalls' = inboundCalls
      ]_vars

C9_Witness ==
    /\ activeWsClient # NULL
    /\ errorsLogged >= 1
    /\ \E i, j \in 1 .. Len(inboundCalls) :
          /\ inboundCalls[i].status \in {"threw", "rejected"}
          /\ inboundCalls[j].arrival > inboundCalls[i].arrival
          /\ inboundCalls[j].conn = inboundCalls[i].conn

\* the text extractText returns for received event k is a string that is
\* empty after trimming
BlankText(k) ==
    LET text == extractText(received[k].event.content, received[k].event.message_type)
    IN  text.t = "string" /\ Trim(text.s) = <<>>

\* C10: the host handler is never called with a text that is empty after
\* trimming: an event whose extracted text is blank is dropped without a
\* handler call and without an error.
C10_BlankNeverRouted ==
    /\ \A i \in 1 .. Len(inboundCalls) : Trim(inboundCalls[i].msg.text) # <<>>
    /\ \A k \in 1 .. Len(received) :
          BlankText(k) =>
              /\ Routed(k).kind = "skip"
              /\ \A i \in 1 .. Len(inboundCalls) : inboundCalls[i].arrival # k
    /\ errorsLogged = Failures
    /\ errorsPropagated = 0

C10_Witness ==
    /\ Len(received) = 1
    /\ BlankText(1)
    /\ received[1].event.message_type = T_post
    /\ extractText(received[1].event.content, T_post).s # <<>>
    /\ inboundCalls = <<>>
    /\ errorsLogged = 0
    /\ last.op = "deliver"
    /\ last.err = "none"

\* the (message id, text) of each element of a sequence of handler calls
CallIds(calls) == [i \in 1 .. Len(calls) |-> <<calls[i].msg.messageId, calls[i].msg.text>>]

\* the (message id, text) of the received events, in arrival order, whose
\* extracted text is a string that is not empty after trimming
RoutableIds(events) ==
    LET text(e) == extractText(e.event.content, e.event.message_type)
        keep == SelectSeq(events, LAMBDA e : text(e).t = "string" /\ Trim(text(e).s) # <<>>)
    IN  [i \in 1 .. Len(keep) |-> <<keep[i].event.message_id, text(keep[i]).s>>]

\* C11: on each socket connection the handleMessage calls are, in order,
\* exactly the received events whose extracted text is non-empty: none is
\* reordered, repeated or left out, whether or not earlier calls have
\* settled or failed.
C11_ArrivalOrder ==
    \A c \in 1 .. Len(wsClients) :
        CallIds(SelectSeq(inboundCalls, LAMBDA x : x.conn = c))
            = RoutableIds(SelectSeq(received, LAMBDA e : e.conn = c))

C11_Witness ==
    /\ Len(received) = 2
    /\ Len(inboundCalls) = 2
    /\ inboundCalls[1].conn = inboundCalls[2].conn
    /\ inboundCalls[1].msg.messageId # inboundCalls[2].msg.messageId
    /\ inboundCalls[1].status \in {"pending", "threw"}

\* a field of a SendResult is populated when it is there and not undefined
Populated(r, f) == f \in DOMAIN r /\ r[f].t # "undefined"

\* the sendTextMessage call recorded in `last` threw inside its try block
SendThrew ==
    \/ validateCredentials(AccountById(last.arg))
    \/ last.ret.outcome.kind # "response"

\* C12: sendTextMessage lets no exception out: for every account, recipient,
\* text, thread id and provider outcome it returns a SendResult, and when
\* something was thrown the result is ok:false with an error string.
C12_SendNeverThrows ==
    last.op = "sendTextMessage" =>
        /\ last.err = "none"
        /\ last.ret.result.ok \in BOOLEAN
        /\ SendThrew =>
              /\ last.ret.result.ok = FALSE
              /\ Populated(last.ret.result, "error")
              /\ last.ret.result.error.t = "string"

C12_Witness ==
    /\ last.op = "sendTextMessage"
    /\ last.ret.outcome.kind = "throwsOther"
    /\ last.ret.request.t = "object"
    /\ last.ret.request.receive_id_type = "chat_id"
    /\ last.ret.request.root_id.t = "string"
    /\ last.ret.result.error = JStr("Unknown error")

\* the provider answered the recorded sendTextMessage call with status code
\* zero and a payload
SendSucceeded ==
    /\ ~validateCredentials(AccountById(last.arg))
    /\ last.ret.outcome.kind = "response"
    /\ last.ret.outcome.code = 0
    /\ last.ret.outcome.data.t = "object"

\* C13: a SendResult is exclusive: ok is true exactly when the response has
\* status code zero and a payload, and then no error is populated; otherwise
\* ok is false, error holds a string and no messageId is populated.
C13_SendResultExclusive ==
    last.op = "sendTextMessage" =>
        LET r == last.ret.result
        IN  /\ r.ok = SendSucceeded
            /\ r.ok => ~Populated(r, "error")
            /\ ~r.ok => /\ Populated(r, "error")
                        /\ r.error.t = "string"
                        /\ ~Populated(r, "messageId")

C13_Witness ==
    /\ last.op = "sendTextMessage"
    /\ last.ret.outcome = Response(0, JStr("success"), JObj([message_id |-> JStr("om_1")]))
    /\ last.ret.result = [ok |-> TRUE, messageId |-> JStr("om_1")]

\* C14: the descriptor of resolveAccount is configured exactly when its appId
\* and appSecret are both non-empty after trimming, whatever the stored
\* configuration, the account id, the environment and the other fields.
C14_ConfiguredIffCredentials ==
    last.op = "resolveAccount" =>
        LET d == last.ret.account
        IN  d.configured = (Trim(d.appId) # <<>> /\ Trim(d.appSecret) # <<>>)

C14_Witness ==
    /\ last.op = "resolveAccount"
    /\ last.arg = "default"
    /\ last.ret.account.appId = <<" ">>
    /\ last.ret.account.appSecret = <<"t">>
    /\ ~last.ret.account.configured

\* the value the stored configuration holds for a field of account "default"
StoredField(cfg, name) == Field(getAccountConfig(getChannelConfig(cfg), "default"), name)

C16_UnsupportedKindPlaceholder ==
    \A k \in 1 .. Len(received) :
        LET e == received[k].event
        IN  e.message_type \notin {T_text, T_post} =>
                /\ extractText(e.content, e.message_type) = JStr(Placeholder(e.message_type))
                /\ parseMessage(e).kind # "null"

\* C17: a callback-mode start while a listener is in the slot does not stop
\* that listener and leaves the slot on the new listener alone; the next
\* stopMonitor() stops the listener in the slot and no other, so the first
\* listener keeps running.
C17_SecondStartKeepsFirst ==
    [][/\ (/\ last'.op = "monitorLarkProvider"
           /\ last'.err = "none"
           /\ activeWebhookServer # NULL
           /\ Len(webhookServers') > Len(webhookServers))
          => /\ webhookServers'[activeWebhookServer] = webhookServers[activeWebhookServer]
             /\ activeWebhookServer' = Len(webhookServers')
             /\ activeWebhookServer' # activeWebhookServer
       /\ (last'.op = "stopMonitor" /\ activeWebhookServer # NULL)
          => /\ webhookServers'[activeWebhookServer].stopCalls
                   = webhookServers[activeWebhookServer].stopCalls + 1
             /\ \A i \in 1 .. Len(webhookServers) :
                   i # activeWebhookServer => webhookServers'[i] = webhookServers[i]
      ]_vars

C17_Witness ==
    /\ last.op = "stopMonitor"
    /\ Len(webhookServers) = 2
    /\ last.wh0 = 2
    /\ webhookServers[1].stopCalls = 0
    /\ webhookServers[2].stopCalls = 1
    /\ activeWebhookServer = NULL
    /\ \A sig \in SignalIds : ~signals[sig].aborted

\* C18: before setLarkRuntime, monitorLarkProvider, gateway.startAccount and
\* routeMessage raise the not-initialized error before any other effect: no
\* connection, listener or client is created and the slots and the client
\* cache are unchanged.  Once the runtime is set it stays set, and no call
\* raises the not-initialized error again.
C18_RuntimeRequired ==
    [][/\ (pluginApi = "null" /\ last'.op \in {"monitorLarkProvider", "startAccount"})
          => /\ last'.err = "notInitialized"
             /\ UNCHANGED <<connVars, cacheVars, routeVars>>
       /\ pluginApi = "null"
          => \A ev \in RouteEvents :
                routeMessage(ev, AcctSocket, pluginApi)
                    = [kind |-> "throws", err |-> "notInitialized"]
       /\ pluginApi # "null"
          => /\ pluginApi' # "null"
             /\ ~GetLarkRuntimeThrows(pluginApi')
             /\ last'.err # "notInitialized"
      ]_vars

C18_Witness ==
    /\ pluginApi = "null"
    /\ last.op = "startAccount"
    /\ last.err = "notInitialized"
    /\ clientCache # EmptyMap
    /\ Connections = 0
    /\ signals[1].listeners = <<>>

\* the account of the connection a step has just created
NewAccount ==
    IF Len(wsClients') > Len(wsClients)
    THEN wsClients'[Len(wsClients')].account
    ELSE webhookServers'[Len(webhookServers')].account

\* C19: with the runtime set, gateway.startAccount for an account that is not
\* configured or not enabled returns normally and starts nothing: no
\* connection, no listener on the signal, slots unchanged; only configured
\* and enabled accounts reach monitorLarkProvider, and for the descriptors
\* of resolveAccount that call never raises the missing-credentials error.
C19_GatewaySkipsUnready ==
    [][/\ (last'.op = "startAccount" /\ last'.err = "none")
          => /\ ~last'.ret.account.configured \/ ~last'.ret.account.enabled
             /\ UNCHANGED <<pluginApi, connVars, cacheVars, routeVars>>
       /\ last'.op = "monitorLarkProvider"
          => /\ last'.err = "none"
             /\ Connections' = Connections + 1
             /\ NewAccount.configured
             /\ NewAccount.enabled
      ]_vars

C19_Witness ==
    /\ last.op = "startAccount"
    /\ last.err = "none"
    /\ last.ret.skipped = "notConfigured"
    /\ last.ret.account.appId = <<" ">>
    /\ last.ret.account.connectionMode = "websocket"
    /\ activeWsClient # NULL
    /\ last.ws0 = activeWsClient
    /\ signals[1].listeners = <<>>

\* C20: once the manager is back to Idle after a socket connection
\* (stopMonitor() was called or the connection's signal fired), an inbound
\* message arriving on that connection is not routed to the host handler.
C20_NoRoutingAfterStop ==
    [][(/\ last'.op = "deliver"
        /\ last'.ws0 = NULL
        /\ last'.wh0 = NULL)
       => inboundCalls' = inboundCalls
      ]_vars

\* the signal was given to no socket-mode start
NoSocketListener(sig) ==
    \A k \in 1 .. Len(signals[sig].listeners) : signals[sig].listeners[k].kind # "ws"

\* C21: a cancellation signal affects only the connection of the start call
\* it was given to: when it fires, no callback listener started with another
\* signal (or none) is stopped, a callback slot that references such a
\* listener is unchanged, and the socket slot is unchanged when the signal
\* was given to no socket-mode start.
C21_SignalStopsOwnOnly ==
    [][last'.op = "abort" =>
          LET sig == last'.ret
          IN  /\ \A i \in 1 .. Len(webhookServers) :
                    webhookServers[i].signal # sig => webhookServers'[i] = webhookServers[i]
              /\ (/\ activeWebhookServer # NULL
                  /\ webhookServers[activeWebhookServer].signal # sig)
                    => activeWebhookServer' = activeWebhookServer
              /\ (activeWsClient # NULL /\ NoSocketListener(sig))
                    => activeWsClient' = activeWsClient
      ]_vars

\* C22: the client cache is injective on (appId, appSecret, domain): two
\* accounts whose triples differ in any way, credentials containing ':'
\* included, never get the same cached client from createLarkClient, and
\* the cache holds at most one entry per triple.
C22_CacheInjective ==
    /\ \A p, q \in issued.since : p[1] # q[1] => p[2] # q[2]
    /\ \A p, q \in issued.since : p[1] = q[1] => p[2] = q[2]
    /\ Cardinality(DOMAIN clientCache) <= Cardinality({p[1] : p \in issued.since})

====
